---- MODULE Spec2Model ----
(***************************************************************************)
(* The token-description scraping and enrichment pipeline:                 *)
(*   getPumpList / enhanceTokensWithDescriptions   (common/api)            *)
(*   PumpFunScraper                                (lib/pump-scraper)      *)
(* One action is one turn of the event loop: the callback of an I/O event  *)
(* or of a timer together with every promise continuation it makes ready.  *)
(***************************************************************************)
EXTENDS Integers, Sequences, FiniteSets, TLC

\* ------------------------------------------------------------------ bounds
\* Slots for getPumpList calls; a slot is reused by the next call.
MaxReqs == 1
\* Longest rank array the upstream list delivers.
MaxTokens == 2
\* Slots for scrapeTokenDescription calls made outside a batch (skipDelay = false).
MaxDirect == 1

\* config.batchSize. The source sets 50; the model scales it to the length of
\* its lists so that a list can span more than one batch.
batchSize == 2

Reqs == 1 .. MaxReqs
Addr == {"X", "Y"}

\* ---------------------------------------------------------- JavaScript values
UNDEFINED == "<undefined>"
NULL == "<null>"
NoDescription == "No description available"

\* What `if (v)` and `v || w` test for the string-or-nothing values of the model.
Truthy(v) == v \notin {UNDEFINED, NULL, ""}

\* String.prototype.trim on the strings of the model.
trim(s) == IF s = "  " THEN "" ELSE s

\* a || b
OrElse(a, b) == IF Truthy(a) THEN a ELSE b

\* ------------------------------------------------------------------ inputs
\* description values the upstream list delivers: absent, empty, blank, text.
UpDesc == {UNDEFINED, "", "  ", "Existing"}
Tokens == [address : Addr, description : UpDesc]

RECURSIVE SeqsUpTo(_, _)
SeqsUpTo(S, n) ==
  IF n = 0 THEN {<<>>}
  ELSE LET shorter == SeqsUpTo(S, n - 1)
       IN shorter \cup {Append(s, x) : s \in {t \in shorter : Len(t) = n - 1}, x \in S}

\* Every list of up to MaxTokens tokens, and the lists of one token more in
\* which every description is empty (they span two batches).
RankLists ==
  SeqsUpTo(Tokens, MaxTokens)
    \cup {l \in SeqsUpTo([address : Addr, description : {""}], MaxTokens + 1) :
            Len(l) = MaxTokens + 1}

\* What the upstream list request can come to.
\*   reject   fetch rejects (network error)
\*   status   a response with res.ok false (its body may well be a list)
\*   garbage  a body JSON.parse throws on
\*   norank   a JSON object without rank
\*   badrank  a JSON object whose rank is not an array
\*   rank     a JSON object with a rank array
UpstreamResponses ==
  {[kind |-> k, rank |-> <<>>] : k \in {"reject", "status", "garbage", "norank", "badrank"}}
    \cup {[kind |-> "status", rank |-> <<t>>] : t \in Tokens}
    \cup {[kind |-> "rank", rank |-> l] : l \in RankLists}

\* What the markup of a token page gives the extractor.
\*   none     no candidate is accepted
\*   blank    the accepted candidate is all whitespace
\*   found    the accepted candidate is a description
\*   literal  the accepted candidate is the text "No description available"
PageKinds == {"none", "blank", "found", "literal"}
Html == [addr : Addr, kind : PageKinds]

DescOf(a) == IF a = "X" THEN "Found X" ELSE "Found Y"

\* ------------------------------------------------------------------- state
VARIABLES
  cache,       \* PumpFunScraper.cache: Addr -> entry
  calls,       \* the scrapeTokenDescription calls, by call id
  runs,        \* the scrapeMultipleTokens call of each getPumpList call
  reqs,        \* the getPumpList calls
  hist,        \* history of the scrapes of an address since its last eviction:
               \* none | fetching (a fetch was issued) | settled | failed (one failed)
  text,        \* the text handed to the validity filters of the extractor
  verdict,     \* the filter last applied to text, and what it returned
  markup,      \* the markup handed to extractDescription
  extracted,   \* what the extractDescription calls on markup returned, in order
  app,         \* the dashboard component App: its SWR state, ref and memo
  abandoned,   \* history: the addresses whose scrapes an enrichment timeout
               \* left running
  pendingTransactions,  \* TransactionManager.pendingTransactions: id -> status
  execs,       \* the executeTransaction calls, by call slot
  retry,       \* a retryTransaction call
  hook,        \* the usePumpData hook: its state and its fetchPumpData call
  store        \* AppStore.state: the ui and tokens slices

scraperVars == <<cache, calls, runs, reqs, hist>>
validatorVars == <<text, verdict>>
extractorVars == <<markup, extracted>>
\* What the scraper and the list service leave alone, and what the filters do.
serverVars == <<scraperVars, validatorVars, extractorVars>>
appVars == <<app>>
txVars == <<pendingTransactions, execs>>
retryVars == <<retry>>
hookVars == <<hook, store>>
clientVars == <<appVars, txVars, retryVars, hookVars>>
nonScraperVars == <<validatorVars, extractorVars, clientVars, abandoned>>
nonValidatorVars == <<scraperVars, extractorVars, clientVars, abandoned>>
nonExtractorVars == <<scraperVars, validatorVars, clientVars, abandoned>>
nonAppVars == <<serverVars, abandoned, txVars, retryVars, hookVars>>
nonTxVars == <<serverVars, abandoned, appVars, retryVars, hookVars>>
nonRetryVars == <<serverVars, abandoned, appVars, txVars, hookVars>>
nonHookVars == <<serverVars, abandoned, appVars, txVars, retryVars>>
vars ==
  <<cache, calls, runs, reqs, hist, text, verdict, markup, extracted, app, abandoned,
    pendingTransactions, execs, retry, hook, store>>

\* Call ids: <<r, k>> is the scrape of the k-th address of request r's
\* scrapeMultipleTokens call; <<0, j>> is the j-th direct call.
BatchCallIds == Reqs \X (1 .. MaxTokens + 1)
DirectCallIds == {0} \X (1 .. MaxDirect)
CallIds == BatchCallIds \cup DirectCallIds

NoEntry == [has |-> FALSE, description |-> UNDEFINED, error |-> UNDEFINED]
\* { description: description || undefined }
DescEntry(d) == [has |-> TRUE, description |-> d, error |-> UNDEFINED]
\* { error: message }
ErrorEntry == [has |-> TRUE, description |-> UNDEFINED, error |-> "error"]

\* A scrapeTokenDescription call.
\*   pc       none | delay | fetching (fetch pending) | body (response.text()
\*            pending) | done
\*   timer    the request-timeout timer: none | armed | cleared | fired
\*   outcome  how a settled call ended: cached | ok | error | timeout
\*   rejected whether the promise settled by rejecting
NoCall ==
  [pc |-> "none", addr |-> "", timer |-> "none", outcome |-> "",
   result |-> UNDEFINED, rejected |-> FALSE]
NoRun == [pc |-> "none", addrs |-> <<>>, i |-> 0, results |-> [a \in Addr |-> UNDEFINED]]
NoResp == [kind |-> "", rank |-> <<>>]
\* What the GET handler of /api/pump answers: the status, and the JSON list or
\* the error object.
NoResponse == [status |-> 0, list |-> <<>>, error |-> UNDEFINED]
IdleReq ==
  [pc |-> "idle", resp |-> NoResp, tokens |-> <<>>,
   settled |-> "pending", list |-> <<>>, via |-> "", response |-> NoResponse]

NoVerdict == [fn |-> "", isMetaTag |-> FALSE, value |-> FALSE]
\* Markup: the candidates each stage of extractDescription finds in it.
NoMarkup == [meta |-> <<>>, structural |-> <<>>, leaves |-> <<>>]

\* getFallbackData(): the list of the one demonstration token.
getFallbackData == <<[address |-> "DEMO", description |-> "demonstration token"]>>
\* App before its first request: useSWR has no data, the ref holds [], and the
\* first render computes displayData from them.
\*   isValidating  a request of the fetcher is in flight
\*   recent        the most recent non-empty list the fetcher resolved with
\*   data          what useSWR returns as data: undefined, or a list
NoData == [undefined |-> TRUE, list |-> <<>>]
\* ------------------------------------------------------- TransactionManager
\* Bounds: the executeTransaction calls that can be in flight together.
MaxExecs == 2
Execs == 1 .. MaxExecs
TxIds == {"t1", "t2"}

\* A map without an entry for the id; a TransactionStatus.
NoStatus ==
  [has |-> FALSE, pending |-> FALSE, confirmed |-> FALSE, failed |-> FALSE,
   signature |-> UNDEFINED, error |-> UNDEFINED]
\* A TransactionResult; an executeTransaction call.
\*   pc  idle | awaiting (transactionFn pending) | returned
NoResult == [success |-> FALSE, signature |-> UNDEFINED, error |-> UNDEFINED]
NoExec == [pc |-> "idle", id |-> "", result |-> NoResult]

\* A retryTransaction call.
\*   pc        idle | calling (transactionFn pending) | waiting (the delay
\*             after a failed attempt) | returned | rejected
\*   calls     the transactionFn calls made so far
\*   outcomes  history: what the transactionFn calls came to, in order
NoRetry ==
  [pc |-> "idle", maxRetries |-> 0, attempt |-> 0, calls |-> 0, lastError |-> NULL,
   result |-> UNDEFINED, outcomes |-> <<>>]

\* What fetch('/api/pump') resolves with: the status and the JSON body, an
\* array or an object with an error field.
NoAnswer == [status |-> 0, body |-> [kind |-> "", list |-> <<>>, error |-> UNDEFINED]]
\* usePumpData before its first fetchPumpData call.
\*   pc      idle | fetching (fetch pending) | parsing (response.json()
\*           pending) | done
\*   answer  history: what the fetch of the last call resolved with
NoHook ==
  [pc |-> "idle", data |-> <<>>, loading |-> FALSE, error |-> NULL, answer |-> NoAnswer]
\* AppStore.getInitialState(): the ui and tokens slices.
InitialState ==
  [ui |-> [loading |-> FALSE, error |-> NULL],
   tokens |-> [pumpTokens |-> <<>>, loading |-> FALSE]]

NoApp ==
  [data |-> NoData, error |-> UNDEFINED, isValidating |-> FALSE,
   lastGoodDataRef |-> <<>>, displayData |-> getFallbackData, recent |-> <<>>]

Init ==
  /\ cache = [a \in Addr |-> NoEntry]
  /\ calls = [c \in CallIds |-> NoCall]
  /\ runs = [r \in Reqs |-> NoRun]
  /\ reqs = [r \in Reqs |-> IdleReq]
  /\ hist = [a \in Addr |-> "none"]
  /\ text = <<>>
  /\ verdict = NoVerdict
  /\ markup = NoMarkup
  /\ extracted = <<>>
  /\ app = NoApp
  /\ abandoned = {}
  /\ pendingTransactions = [id \in TxIds |-> NoStatus]
  /\ execs = [e \in Execs |-> NoExec]
  /\ retry = NoRetry
  /\ hook = NoHook
  /\ store = InitialState

\* --------------------------------------------- PumpFunScraper: one scrape

\* cached.description || 'No description available'
cachedResult(entry) == OrElse(entry.description, NoDescription)

scrapeStartNoLookup(a, skipDelay) ==
  IF skipDelay
  THEN [NoCall EXCEPT !.pc = "fetching", !.addr = a, !.timer = "armed"]
  ELSE [NoCall EXCEPT !.pc = "delay", !.addr = a]

\* scrapeTokenDescription from its call to its first await: the cache lookup,
\* and with skipDelay the start of fetchTokenPage (timer set, fetch issued).
scrapeStart(a, skipDelay) ==
  IF cache[a].has
  THEN [NoCall EXCEPT !.pc = "done", !.addr = a, !.outcome = "cached",
                      !.result = cachedResult(cache[a])]
  ELSE IF skipDelay
       THEN [NoCall EXCEPT !.pc = "fetching", !.addr = a, !.timer = "armed"]
       ELSE [NoCall EXCEPT !.pc = "delay", !.addr = a]

\* The description the extractor returns for a page (its cascade is abstracted
\* to the kind of candidate it ends on).
extractDescription(html) ==
  CASE html.kind = "none" -> NULL
    [] html.kind = "blank" -> ""
    [] html.kind = "found" -> DescOf(html.addr)
    [] html.kind = "literal" -> NoDescription

cacheAfterSuccessFirstWins(a, description) ==
  IF cache[a].has THEN cache
  ELSE [cache EXCEPT ![a] = [has |-> TRUE, description |-> description, error |-> UNDEFINED]]

\* this.cache.set(tokenAddress, { description: description || undefined })
cacheAfterSuccess(a, description) ==
  [cache EXCEPT ![a] = DescEntry(OrElse(description, UNDEFINED))]

cacheAfterFailureNotCached(a) == cache

\* this.cache.set(tokenAddress, { error: ... })
cacheAfterFailure(a) == [cache EXCEPT ![a] = ErrorEntry]

\* The try branch after the page arrived: return description || placeholder.
scrapeSucceeded(call, description) ==
  [call EXCEPT !.pc = "done", !.outcome = "ok",
               !.result = OrElse(description, NoDescription)]

fetchTokenPageCatchKeepsTimer(call, why) == call.timer

\* The timer of a fetchTokenPage call that throws: it has fired (the abort) or
\* is cleared by catch (error) { clearTimeout(timeoutId); throw error }.
fetchTokenPageCatch(call, why) == IF why = "timeout" THEN "fired" ELSE "cleared"

scrapeRethrows(call, why) ==
  [call EXCEPT !.pc = "done", !.outcome = why, !.rejected = TRUE,
               !.timer = fetchTokenPageCatch(call, why)]

\* The catch branch: the error is logged and the placeholder returned.
scrapeCaught(call, why) ==
  [call EXCEPT !.pc = "done", !.outcome = why, !.result = NoDescription,
               !.timer = fetchTokenPageCatch(call, why)]

\* ------------------------------------- PumpFunScraper: scrapeMultipleTokens

Min(a, b) == IF a < b THEN a ELSE b

BatchIdxRest(run) == (run.i + 1) .. Len(run.addrs)

\* The indices of the batch the loop is at: slice(i, i + batchSize).
BatchIdx(run) == (run.i + 1) .. Min(run.i + batchSize, Len(run.addrs))

EmptyResults == [a \in Addr |-> UNDEFINED]

\* processBatch after allSettled: the fulfilled results, assigned in input order.
RECURSIVE collectBatch(_, _, _, _, _)
collectBatch(res, cs, r, k, hi) ==
  IF k > hi THEN res
  ELSE LET c == cs[<<r, k>>]
       IN collectBatch(IF c.rejected THEN res ELSE [res EXCEPT ![c.addr] = c.result],
                       cs, r, k + 1, hi)

processBatchAllOrNothing(run, cs, r) ==
  IF \E k \in BatchIdx(run) : cs[<<r, k>>].outcome \in {"error", "timeout"}
  THEN EmptyResults
  ELSE collectBatch(EmptyResults, cs, r, run.i + 1, Min(run.i + batchSize, Len(run.addrs)))

processBatch(run, cs, r) ==
  collectBatch(EmptyResults, cs, r, run.i + 1, Min(run.i + batchSize, Len(run.addrs)))

objectAssignReplace(target, source) == source

\* Object.assign(results, batchResults)
objectAssign(target, source) ==
  [a \in Addr |-> IF source[a] # UNDEFINED THEN source[a] ELSE target[a]]

\* The calls a batch starts, all in the one synchronous map() of processBatch.
startBatch(run, r) ==
  [c \in CallIds |->
     IF c[1] = r /\ c[2] \in BatchIdx(run)
     THEN scrapeStart(run.addrs[c[2]], TRUE)
     ELSE calls[c]]

\* The calls among cs that issue their page fetch in this step.
newFetches(cs, a) ==
  {c \in CallIds : cs[c].pc = "fetching" /\ calls[c].pc # "fetching" /\ cs[c].addr = a}

histAfterIssue(cs) ==
  [a \in Addr |-> IF newFetches(cs, a) # {} /\ hist[a] = "none" THEN "fetching" ELSE hist[a]]

histAfterSettle(a, outcome) ==
  [hist EXCEPT ![a] = IF outcome \in {"error", "timeout"} \/ @ = "failed"
                      THEN "failed" ELSE "settled"]

\* scrapeMultipleTokens resumed after the calls became cs: when every call of
\* the batch has settled the results are merged, and the loop either waits
\* the batch delay or returns.
settleRun(run, cs, r) ==
  IF run.pc = "batch" /\ \A k \in BatchIdx(run) : cs[<<r, k>>].pc = "done"
  THEN LET res == objectAssign(run.results, processBatch(run, cs, r))
       IN IF run.i + batchSize < Len(run.addrs)
          THEN [run EXCEPT !.results = res, !.pc = "delay"]
          ELSE [run EXCEPT !.results = res, !.pc = "done"]
  ELSE run

\* ------------------------------------------------------ List enrichment

needsScrapingNoTrim(token) == ~Truthy(token.description)

\* !token.description || token.description.trim() === ''
needsScraping(token) == ~Truthy(token.description) \/ trim(token.description) = ""

mergeTokenAnyResult(token, scraped) ==
  IF Truthy(scraped[token.address])
  THEN [token EXCEPT !.description = scraped[token.address]]
  ELSE token

\* The body of the merge loop for one token.
mergeToken(token, scraped) ==
  IF Truthy(scraped[token.address]) /\ scraped[token.address] # NoDescription
  THEN [token EXCEPT !.description = scraped[token.address]]
  ELSE token

mergeDescriptionsOfNeedy(tokens, scraped) ==
  LET needy == SelectSeq(tokens, needsScraping)
  IN [i \in DOMAIN needy |-> mergeToken(needy[i], scraped)]

\* for (const token of tokens) { ... }
mergeDescriptions(tokens, scraped) ==
  [i \in DOMAIN tokens |-> mergeToken(tokens[i], scraped)]

\* enhanceTokensWithDescriptions when no token needs a description: return.
enhanceSkipped(tokens) == [threw |-> FALSE, tokens |-> tokens]

\* enhanceTokensWithDescriptions when the race is won by the scrape.
enhanceMerged(tokens, scraped) ==
  [threw |-> FALSE, tokens |-> mergeDescriptions(tokens, scraped)]

enhanceRethrows(tokens) == [threw |-> TRUE, tokens |-> tokens]

\* enhanceTokensWithDescriptions when the race rejects: catch (scrapingError)
\* logs and does not rethrow.
enhanceCaught(tokens) == [threw |-> FALSE, tokens |-> tokens]

upstreamThrowsNoStatusCheck(resp) == resp.kind \in {"reject", "garbage"}

\* fetch rejects, !res.ok throws, JSON.parse throws.
upstreamThrows(resp) == resp.kind \in {"reject", "status", "garbage"}

\* data.rank || []
rankOf(resp) == IF resp.kind \in {"rank", "status"} THEN resp.rank ELSE <<>>

\* tokens.filter is not a function when rank is not an array: the TypeError
\* leaves enhanceTokensWithDescriptions before its try block.
enhanceThrowsEarly(resp) == resp.kind = "badrank"

returned(req, list) ==
  [req EXCEPT !.pc = "Returned", !.settled = "resolved", !.list = list]

\* The history of a request: which way it came to return.
Via(req, way) == [req EXCEPT !.via = way]

getPumpListRethrows(req) == [req EXCEPT !.pc = "Returned", !.settled = "rejected"]

\* catch (error) { ...; return [] }
getPumpListCatch(req) == returned(req, <<>>)

\* await enhanceTokensWithDescriptions(tokens); return tokens.length > 0 ? tokens : []
getPumpListAfterEnhance(req, e) ==
  IF e.threw THEN getPumpListCatch(req)
  ELSE returned([req EXCEPT !.tokens = e.tokens], e.tokens)

GETFailsOnEmpty(req) ==
  [req EXCEPT !.response =
     IF req.settled = "rejected" \/ req.list = <<>>
     THEN [status |-> 500, list |-> <<>>, error |-> "Failed to fetch pump data"]
     ELSE [status |-> 200, list |-> req.list, error |-> UNDEFINED]]

\* The GET handler resumed after getPumpList settled: Response.json(data), or
\* in its catch the error object with status 500.
GET(req) ==
  [req EXCEPT !.response =
     IF req.settled = "rejected"
     THEN [status |-> 500, list |-> <<>>, error |-> "Failed to fetch pump data"]
     ELSE [status |-> 200, list |-> req.list, error |-> UNDEFINED]]

\* The request resumed after its scrapeMultipleTokens call became run.
settleReq(req, run) ==
  IF req.pc = "Enriching" /\ run.pc = "done"
  THEN Via(GET(getPumpListAfterEnhance(req, enhanceMerged(req.tokens, run.results))),
           "merged")
  ELSE req

\* The continuations of request r that the calls cs make ready.
Advance(r, cs, run0, req0) ==
  LET run1 == settleRun(run0, cs, r)
  IN /\ calls' = cs
     /\ runs' = [runs EXCEPT ![r] = run1]
     /\ reqs' = [reqs EXCEPT ![r] = settleReq(req0, run1)]

\* ----------------------------------------------------------------- actions

\* getPumpList is called: the upstream list fetch is issued.
GetPumpList(r) ==
  /\ UNCHANGED nonScraperVars
  /\ reqs[r].pc \in {"idle", "Returned"}
  /\ runs[r].pc \in {"none", "done"}
  /\ reqs' = [reqs EXCEPT ![r] = [IdleReq EXCEPT !.pc = "Fetching"]]
  /\ runs' = [runs EXCEPT ![r] = NoRun]
  /\ calls' = [c \in CallIds |-> IF c[1] = r THEN NoCall ELSE calls[c]]
  /\ UNCHANGED <<cache, hist>>

\* The upstream list request settles; getPumpList runs to its next await.
UpstreamResponds(r, resp) ==
  /\ UNCHANGED nonScraperVars
  /\ reqs[r].pc = "Fetching"
  /\ UNCHANGED cache
  /\ LET req0 == [reqs[r] EXCEPT !.resp = resp]
         tokens == rankOf(resp)
         needy == SelectSeq(tokens, needsScraping)
         addresses == [k \in DOMAIN needy |-> needy[k].address]
         run0 == [NoRun EXCEPT !.pc = "batch", !.addrs = addresses]
     IN IF upstreamThrows(resp) \/ enhanceThrowsEarly(resp)
        THEN /\ reqs' = [reqs EXCEPT ![r] = Via(GET(getPumpListCatch(req0)), "failed")]
             /\ UNCHANGED <<calls, runs, hist>>
        ELSE IF Len(needy) = 0
        THEN /\ reqs' = [reqs EXCEPT ![r] =
                  Via(GET(getPumpListAfterEnhance(req0, enhanceSkipped(tokens))), "skipped")]
             /\ UNCHANGED <<calls, runs, hist>>
        ELSE /\ hist' = histAfterIssue(startBatch(run0, r))
             /\ Advance(r, startBatch(run0, r), run0,
                        [req0 EXCEPT !.pc = "Enriching", !.tokens = tokens])

\* The timeout of the race also ends the scrapes that are pending.
EnrichmentTimeoutCancels(r) ==
  /\ UNCHANGED <<validatorVars, extractorVars, clientVars>>
  /\ reqs[r].pc = "Enriching"
  /\ reqs' = [reqs EXCEPT ![r] =
        Via(GET(getPumpListAfterEnhance(reqs[r], enhanceCaught(reqs[r].tokens))),
            "timeout")]
  /\ abandoned' = abandoned
  /\ calls' = [c \in CallIds |->
                IF c[1] = r /\ calls[c].pc # "done" THEN NoCall ELSE calls[c]]
  /\ runs' = [runs EXCEPT ![r].pc = "done"]
  /\ UNCHANGED <<cache, hist>>

\* The 15000 ms timer fires while the race is pending: the race rejects.
\* (Fired after the race has settled, the timer changes nothing.)
EnrichmentTimeout(r) ==
  /\ UNCHANGED <<validatorVars, extractorVars, clientVars>>
  /\ abandoned' = abandoned \cup {runs[r].addrs[k] : k \in DOMAIN runs[r].addrs}
  /\ reqs[r].pc = "Enriching"
  /\ reqs' = [reqs EXCEPT ![r] =
        Via(GET(getPumpListAfterEnhance(reqs[r], enhanceCaught(reqs[r].tokens))),
            "timeout")]
  /\ UNCHANGED <<cache, calls, runs, hist>>

\* The batch delay of scrapeMultipleTokens elapses: the next batch starts.
BatchDelayElapsed(r) ==
  /\ UNCHANGED nonScraperVars
  /\ runs[r].pc = "delay"
  /\ UNCHANGED cache
  /\ LET run0 == [runs[r] EXCEPT !.pc = "batch", !.i = runs[r].i + batchSize]
     IN /\ hist' = histAfterIssue(startBatch(run0, r))
        /\ Advance(r, startBatch(run0, r), run0, reqs[r])

\* A call settles as call1 with the cache becoming cache1.
Settle(c, call1, cache1) ==
  LET cs == [calls EXCEPT ![c] = call1]
  IN /\ UNCHANGED nonScraperVars
     /\ cache' = cache1
     /\ hist' = histAfterSettle(call1.addr, call1.outcome)
     /\ IF c[1] = 0
        THEN calls' = cs /\ UNCHANGED <<runs, reqs>>
        ELSE Advance(c[1], cs, runs[c[1]], reqs[c[1]])

\* scrapeTokenDescription(a) is called outside a batch (skipDelay = false).
ScrapeDirect(c, a) ==
  /\ UNCHANGED nonScraperVars
  /\ c \in DirectCallIds
  /\ calls[c].pc \in {"none", "done"}
  /\ calls' = [calls EXCEPT ![c] = scrapeStart(a, FALSE)]
  /\ UNCHANGED <<cache, runs, reqs, hist>>

\* The rate-limit delay of a direct call elapses: fetchTokenPage starts.
RateLimitElapsed(c) ==
  /\ UNCHANGED nonScraperVars
  /\ calls[c].pc = "delay"
  /\ LET cs == [calls EXCEPT ![c] = [@ EXCEPT !.pc = "fetching", !.timer = "armed"]]
     IN calls' = cs /\ hist' = histAfterIssue(cs)
  /\ UNCHANGED <<cache, runs, reqs>>

\* The response arrives with response.ok: clearTimeout, then await response.text().
FetchHeaders(c) ==
  /\ UNCHANGED nonScraperVars
  /\ calls[c].pc = "fetching"
  /\ calls' = [calls EXCEPT ![c] = [@ EXCEPT !.pc = "body", !.timer = "cleared"]]
  /\ UNCHANGED <<cache, runs, reqs, hist>>

\* fetch rejects (network error): fetchTokenPage clears the timer and rethrows.
FetchRejects(c) ==
  /\ calls[c].pc = "fetching"
  /\ Settle(c, scrapeCaught(calls[c], "error"), cacheAfterFailure(calls[c].addr))

\* The response arrives with response.ok false: fetchTokenPage throws.
FetchNotOk(c) ==
  /\ calls[c].pc = "fetching"
  /\ Settle(c, scrapeCaught(calls[c], "error"), cacheAfterFailure(calls[c].addr))

\* The request timer fires while the fetch is pending: abort, fetch rejects.
FetchTimeout(c) ==
  /\ calls[c].pc = "fetching"
  /\ calls[c].timer = "armed"
  /\ Settle(c, scrapeCaught(calls[c], "timeout"), cacheAfterFailure(calls[c].addr))

\* response.text() resolves with the markup.
BodyArrives(c, kind) ==
  /\ calls[c].pc = "body"
  /\ LET description == extractDescription([addr |-> calls[c].addr, kind |-> kind])
     IN Settle(c, scrapeSucceeded(calls[c], description),
               cacheAfterSuccess(calls[c].addr, description))

\* response.text() rejects (the connection breaks while the body is read).
BodyFails(c) ==
  /\ calls[c].pc = "body"
  /\ Settle(c, scrapeCaught(calls[c], "error"), cacheAfterFailure(calls[c].addr))

clearCache ==
  /\ UNCHANGED nonScraperVars
  /\ cache' = [a \in Addr |-> NoEntry]
  /\ hist' = [a \in Addr |-> "none"]
  /\ UNCHANGED <<calls, runs, reqs>>

\* getCacheStats(): the size of the cache and its keys.
getCacheStats ==
  [size |-> Cardinality({a \in Addr : cache[a].has}),
   tokens |-> {a \in Addr : cache[a].has}]

clearTokenFromCacheKeepsEntry(a) ==
  /\ cache' = cache
  /\ hist' = [hist EXCEPT ![a] = "none"]
  /\ UNCHANGED <<calls, runs, reqs>>
  /\ UNCHANGED nonScraperVars

clearTokenFromCache(a) ==
  /\ UNCHANGED nonScraperVars
  /\ cache' = [cache EXCEPT ![a] = NoEntry]
  /\ hist' = [hist EXCEPT ![a] = "none"]
  /\ UNCHANGED <<calls, runs, reqs>>

\* scrapeMultipleTokens(addresses) is called on the exported scraper.
ScrapeMultipleTokens(r, addresses) ==
  /\ UNCHANGED nonScraperVars
  /\ reqs[r].pc = "idle"
  /\ runs[r].pc \in {"none", "done"}
  /\ UNCHANGED cache
  /\ LET run0 == [NoRun EXCEPT !.pc = IF Len(addresses) = 0 THEN "done" ELSE "batch",
                               !.addrs = addresses]
         cs == [c \in CallIds |-> IF c[1] = r THEN NoCall ELSE calls[c]]
         started == [c \in CallIds |->
                       IF c[1] = r /\ c[2] \in BatchIdx(run0)
                       THEN scrapeStart(addresses[c[2]], TRUE)
                       ELSE cs[c]]
     IN /\ hist' = histAfterIssue(started)
        /\ Advance(r, started, run0, reqs[r])

\* A page request or a timer of a scrape makes progress.
ScrapeStep ==
  \/ \E c \in CallIds : FetchHeaders(c)
  \/ \E c \in CallIds : FetchRejects(c)
  \/ \E c \in CallIds : FetchNotOk(c)
  \/ \E c \in CallIds : FetchTimeout(c)
  \/ \E c \in CallIds, kind \in PageKinds : BodyArrives(c, kind)
  \/ \E c \in CallIds : BodyFails(c)

\* The list service: the scraper is used by getPumpList only.
Next ==
  \/ \E r \in Reqs : GetPumpList(r)
  \/ \E r \in Reqs, resp \in UpstreamResponses : UpstreamResponds(r, resp)
  \/ \E r \in Reqs : EnrichmentTimeout(r)
  \/ \E r \in Reqs : BatchDelayElapsed(r)
  \/ ScrapeStep

Spec == Init /\ [][Next]_vars

\* The list service with what the event loop guarantees: a timer that was set
\* and not cleared fires. Nothing is assumed of the servers.
TimersFire ==
  /\ \A c \in CallIds : WF_vars(FetchTimeout(c))
  /\ \A r \in Reqs : WF_vars(BatchDelayElapsed(r))
  /\ \A r \in Reqs : WF_vars(EnrichmentTimeout(r))

LiveSpec == Spec /\ TimersFire

\* The scraper under any use of its public methods, with address lists of one
\* batch (Spec has the lists that span two).
AddrLists == SeqsUpTo(Addr, batchSize)

ScraperNext ==
  \/ \E r \in Reqs, l \in AddrLists : ScrapeMultipleTokens(r, l)
  \/ \E c \in DirectCallIds, a \in Addr : ScrapeDirect(c, a)
  \/ \E c \in CallIds : RateLimitElapsed(c)
  \/ ScrapeStep
  \/ clearCache
  \/ \E a \in Addr : clearTokenFromCache(a)

ScraperSpec == Init /\ [][ScraperNext]_vars

\* ------------------------------------------- Extractor: the validity filters
\* A text is the sequence of its atoms: a one-space atom " " for each space,
\* and a word for each maximal run of other characters. No word of Vocabulary
\* contains a phrase of the exclusion lists except as the whole word.

\* Longest text, in words.
MaxWords == 3

\* config.minDescriptionLength, config.maxDescriptionLength
minDescriptionLength == 0
maxDescriptionLength == 2500

\* A word one character longer than maxDescriptionLength.
LongWord == "<2501 letters>"

Vocabulary ==
  {"5", "1.5", "5m", "minutes", "ago", "about", "just", "now",
   "yesterday", "Yesterday", "moon", "loading", LongWord}

\* The words ws with the separator sep between each two.
RECURSIVE Join(_, _)
Join(ws, sep) ==
  IF Len(ws) = 0 THEN <<>>
  ELSE IF Len(ws) = 1 THEN ws
  ELSE <<Head(ws)>> \o sep \o Join(Tail(ws), sep)

\* Up to MaxWords words separated by one space or by two, with or without a
\* space before and after, and the four-word text of the second time pattern.
Texts ==
  {lead \o Join(ws, sep) \o trail :
     ws \in SeqsUpTo(Vocabulary, MaxWords) \cup {<<"about", "5", "minutes", "ago">>},
     sep \in {<<" ">>, <<" ", " ">>},
     lead \in {<<>>, <<" ">>},
     trail \in {<<>>, <<" ">>}}

\* String.prototype.toLowerCase, on an atom and on a text.
lowerAtom(a) == IF a = "Yesterday" THEN "yesterday" ELSE a
toLowerCase(t) == [i \in DOMAIN t |-> lowerAtom(t[i])]

atomLength(a) ==
  CASE a = LongWord -> 2501
    [] a \in {" ", "5"} -> 1
    [] a = "5m" -> 2
    [] a \in {"1.5", "ago", "now"} -> 3
    [] a \in {"just", "moon"} -> 4
    [] a = "about" -> 5
    [] a \in {"minutes", "loading"} -> 7
    [] a \in {"yesterday", "Yesterday"} -> 9

\* text.length
RECURSIVE length(_)
length(t) == IF Len(t) = 0 THEN 0 ELSE atomLength(Head(t)) + length(Tail(t))

\* The index of the first atom at or after i that is no space (\s*).
RECURSIVE skipSpaces(_, _)
skipSpaces(t, i) == IF i <= Len(t) /\ t[i] = " " THEN skipSpaces(t, i + 1) ELSE i

\* The words of pat (each a set of lower-case atoms) stand in t from index i
\* on with \s+ between each two (the /i flag): the index after the last of
\* them, or 0 when they do not.
RECURSIVE matchWords(_, _, _)
matchWords(t, i, pat) ==
  IF i > Len(t) \/ lowerAtom(t[i]) \notin Head(pat) THEN 0
  ELSE IF Len(pat) = 1 THEN i + 1
  ELSE LET j == skipSpaces(t, i + 1)
       IN IF j = i + 1 THEN 0 ELSE matchWords(t, j, Tail(pat))

\* (second|minute|hour|day|week|month|year)s? between \s+ and \s+
Units ==
  {"second", "minute", "hour", "day", "week", "month", "year",
   "seconds", "minutes", "hours", "days", "weeks", "months", "years"}
\* \b\d+ before \s+: the atoms of Vocabulary that end in digits after a boundary
NumberEnd == {"5", "1.5"}
\* \d+ between \s+ and \s+
Digits == {"5"}
\* \b\d+[mhd] before \s+
ShortAge == {"5m"}
\* ago\b after \s+
AgoWord == {"ago"}

\* timePatterns.some(pattern => pattern.test(text))
matchesTimePattern(t) ==
  \/ \E i \in DOMAIN t : matchWords(t, i, <<NumberEnd, Units, AgoWord>>) # 0
  \/ \E i \in DOMAIN t : matchWords(t, i, <<{"about"}, Digits, Units, AgoWord>>) # 0
  \/ \E i \in DOMAIN t : matchWords(t, i, <<ShortAge, AgoWord>>) # 0
  \/ LET e == matchWords(t, skipSpaces(t, 1), <<Digits, Units, AgoWord>>)
     IN e # 0 /\ skipSpaces(t, e) = Len(t) + 1
  \/ toLowerCase(t) \in {<<"just", " ", "now">>, <<"moments", " ", "ago">>,
                         <<"moment", " ", "ago">>, <<"recently", " ", "created">>,
                         <<"recently", " ", "create">>}
  \/ toLowerCase(t) \in {<<"yesterday">>, <<"today">>, <<"tomorrow">>}

commonExclusions ==
  {<<"default", " ", "description">>, <<"time", " ", "since", " ", "creation">>,
   <<"creation", " ", "time">>}

uiExclusions ==
  {<<"connect", " ", "wallet">>, <<"copy", " ", "address">>, <<"click", " ", "here">>,
   <<"sign", " ", "in">>, <<"log", " ", "in">>, <<"loading">>, <<"view", " ", "more">>,
   <<"show", " ", "more">>, <<"read", " ", "more">>,
   <<"taking", " ", "too", " ", "long", " ", "to", " ", "load">>,
   <<"try", " ", "refresh">>, <<"refresh", " ", "the", " ", "page">>,
   <<"page", " ", "not", " ", "found">>, <<"error", " ", "loading">>,
   <<"failed", " ", "to", " ", "load">>, <<"try", " ", "again">>}

\* String.prototype.includes
includes(t, phrase) ==
  \E i \in 1 .. Len(t) - Len(phrase) + 1 : SubSeq(t, i, i + Len(phrase) - 1) = phrase

isValidDescriptionTimeForMetaOnly(t, isMetaTag) ==
  IF Len(t) = 0 \/ length(t) < minDescriptionLength \/ length(t) > maxDescriptionLength
  THEN FALSE
  ELSE IF isMetaTag /\ matchesTimePattern(t) THEN FALSE
  ELSE IF toLowerCase(t) \in commonExclusions THEN FALSE
  ELSE IF ~isMetaTag /\ \E ex \in uiExclusions : includes(toLowerCase(t), ex) THEN FALSE
  ELSE TRUE

isValidDescriptionLenientOnTime(t, isMetaTag) ==
  IF Len(t) = 0 \/ length(t) < minDescriptionLength \/ length(t) > maxDescriptionLength
  THEN FALSE
  ELSE IF ~isMetaTag /\ matchesTimePattern(t) THEN FALSE
  ELSE IF toLowerCase(t) \in commonExclusions THEN FALSE
  ELSE IF ~isMetaTag /\ \E ex \in uiExclusions : includes(toLowerCase(t), ex) THEN FALSE
  ELSE TRUE

isValidDescription(t, isMetaTag) ==
  IF Len(t) = 0 \/ length(t) < minDescriptionLength \/ length(t) > maxDescriptionLength
  THEN FALSE
  ELSE IF matchesTimePattern(t) THEN FALSE
  ELSE IF toLowerCase(t) \in commonExclusions THEN FALSE
  ELSE IF ~isMetaTag /\ \E ex \in uiExclusions : includes(toLowerCase(t), ex) THEN FALSE
  ELSE TRUE

\* text.split(' ').length
splitLength(t) == Cardinality({i \in DOMAIN t : t[i] = " "}) + 1

\* /^\d+[.,]\d+/ and /^\w+\s*$/ on the atoms of Vocabulary
startsWithDecimal(t) == Len(t) > 0 /\ t[1] = "1.5"
isSingleWord(t) ==
  /\ Len(t) > 0
  /\ t[1] \in Vocabulary \ {"1.5", LongWord}
  /\ skipSpaces(t, 2) = Len(t) + 1

isValidTextBlock(t) ==
  IF ~isValidDescription(t, FALSE) THEN FALSE
  ELSE /\ ~startsWithDecimal(t)
       /\ ~isSingleWord(t)
       /\ splitLength(t) > 2
       /\ ~includes(toLowerCase(t), <<"market", " ", "cap">>)
       /\ ~includes(toLowerCase(t), <<"loading">>)
       /\ ~includes(toLowerCase(t), <<"refresh">>)
       /\ ~includes(toLowerCase(t), <<"try", " ", "again">>)

\* isValidDescription(text, isMetaTag) is called.
IsValidDescription(isMetaTag) ==
  /\ verdict' = [fn |-> "isValidDescription", isMetaTag |-> isMetaTag,
                 value |-> isValidDescription(text, isMetaTag)]
  /\ UNCHANGED <<text, nonValidatorVars>>

\* isValidTextBlock(text) is called.
IsValidTextBlock ==
  /\ verdict' = [fn |-> "isValidTextBlock", isMetaTag |-> FALSE,
                 value |-> isValidTextBlock(text)]
  /\ UNCHANGED <<text, nonValidatorVars>>

\* The filters applied to any text of Texts.
ValidatorInit ==
  /\ cache = [a \in Addr |-> NoEntry]
  /\ calls = [c \in CallIds |-> NoCall]
  /\ runs = [r \in Reqs |-> NoRun]
  /\ reqs = [r \in Reqs |-> IdleReq]
  /\ hist = [a \in Addr |-> "none"]
  /\ text \in Texts
  /\ verdict = NoVerdict
  /\ markup = NoMarkup
  /\ extracted = <<>>
  /\ app = NoApp
  /\ abandoned = {}
  /\ pendingTransactions = [id \in TxIds |-> NoStatus]
  /\ execs = [e \in Execs |-> NoExec]
  /\ retry = NoRetry
  /\ hook = NoHook
  /\ store = InitialState

ValidatorNext ==
  \/ \E isMetaTag \in BOOLEAN : IsValidDescription(isMetaTag)
  \/ IsValidTextBlock

ValidatorSpec == ValidatorInit /\ [][ValidatorNext]_vars

\* ------------------------------------------------ Extractor: the cascade
\* Markup is modelled by what the selectors of each stage find in it:
\*   meta        the content attributes the three meta selectors yield, in order
\*   structural  the texts of the elements the structural selectors match
\*   leaves      the texts of the p, div and span elements without children

\* Most candidates a stage finds.
MaxCandidates == 2
\* extractDescription calls on one markup.
MaxExtracts == 2

\* Candidate texts: all whitespace; a sentence with a relative time; a UI
\* phrase; a sentence with surplus whitespace; a single word.
Candidates ==
  {<<" ", " ">>,
   <<"moon", " ", "5", " ", "minutes", " ", "ago">>,
   <<"loading">>,
   <<" ", "moon", " ", " ", "moon", " ", "now", " ">>,
   <<"moon">>}

Markups ==
  [meta : SeqsUpTo(Candidates, MaxCandidates),
   structural : SeqsUpTo(Candidates, MaxCandidates),
   leaves : SeqsUpTo(Candidates, MaxCandidates)]

\* String.prototype.trim
RECURSIVE trimEnd(_)
trimEnd(t) == IF Len(t) > 0 /\ t[Len(t)] = " " THEN trimEnd(SubSeq(t, 1, Len(t) - 1)) ELSE t
trimText(t) == trimEnd(SubSeq(t, skipSpaces(t, 1), Len(t)))

\* text.replace(/\s+/g, ' ')
RECURSIVE collapseSpaces(_)
collapseSpaces(t) ==
  IF Len(t) < 2 THEN t
  ELSE IF t[1] = " " /\ t[2] = " " THEN collapseSpaces(Tail(t))
  ELSE <<t[1]>> \o collapseSpaces(Tail(t))

\* text.replace(/\s+/g, ' ').trim()
normalize(t) == trimText(collapseSpaces(t))

\* What extractDescription returns: null or a string.
NullResult == [null |-> TRUE, text |-> <<>>]
Description(t) == [null |-> FALSE, text |-> t]

\* The least index of a non-empty set of indices.
First(idx) == CHOOSE i \in idx : \A j \in idx : i <= j

\* content && this.isValidDescription(content, true)
metaAccepted(content) == Len(content) > 0 /\ isValidDescription(content, TRUE)
\* this.isValidDescription($(elements[i]).text().trim(), false)
structuralAccepted(elementText) == isValidDescription(trimText(elementText), FALSE)
\* hasOnlyTextChildren && this.isValidTextBlock($(element).text().trim())
leafAccepted(elementText) == isValidTextBlock(trimText(elementText))

findTextBlocks(m) ==
  LET ok == {i \in DOMAIN m.leaves : leafAccepted(m.leaves[i])}
  IN IF ok = {} THEN NullResult
     ELSE Description(normalize(trimText(m.leaves[First(ok)])))

extractDescriptionReadsCache(m) ==
  IF cache["X"].has THEN NullResult ELSE findTextBlocks(m)

extractDescriptionStructuralFirst(m) ==
  LET metaOk == {i \in DOMAIN m.meta : metaAccepted(m.meta[i])}
      structuralOk == {i \in DOMAIN m.structural : structuralAccepted(m.structural[i])}
  IN IF structuralOk # {}
     THEN Description(normalize(trimText(m.structural[First(structuralOk)])))
     ELSE IF metaOk # {} THEN Description(normalize(m.meta[First(metaOk)]))
     ELSE findTextBlocks(m)

\* extractDescription on markup m (the cascade in full; extractDescription
\* above gives the scraper its result by the kind of page).
extractDescriptionMarkup(m) ==
  LET metaOk == {i \in DOMAIN m.meta : metaAccepted(m.meta[i])}
      structuralOk == {i \in DOMAIN m.structural : structuralAccepted(m.structural[i])}
  IN IF metaOk # {} THEN Description(normalize(m.meta[First(metaOk)]))
     ELSE IF structuralOk # {}
     THEN Description(normalize(trimText(m.structural[First(structuralOk)])))
     ELSE findTextBlocks(m)

\* extractDescription(markup) is called.
ExtractDescription ==
  /\ Len(extracted) < MaxExtracts
  /\ extracted' = Append(extracted, extractDescriptionMarkup(markup))
  /\ UNCHANGED <<markup, nonExtractorVars>>

\* The scraper's cache is emptied between two calls.
ExtractorClearCache ==
  /\ clearCache
  /\ UNCHANGED extracted

\* extractDescription on any markup of Markups, the cache holding entries or not.
ExtractorInit ==
  /\ cache \in {[a \in Addr |-> NoEntry], [a \in Addr |-> DescEntry(DescOf(a))]}
  /\ calls = [c \in CallIds |-> NoCall]
  /\ runs = [r \in Reqs |-> NoRun]
  /\ reqs = [r \in Reqs |-> IdleReq]
  /\ hist = [a \in Addr |-> "none"]
  /\ text = <<>>
  /\ verdict = NoVerdict
  /\ markup \in Markups
  /\ extracted = <<>>
  /\ app = NoApp
  /\ abandoned = {}
  /\ pendingTransactions = [id \in TxIds |-> NoStatus]
  /\ execs = [e \in Execs |-> NoExec]
  /\ retry = NoRetry
  /\ hook = NoHook
  /\ store = InitialState

ExtractorNext ==
  \/ ExtractDescription
  \/ ExtractorClearCache

ExtractorSpec == ExtractorInit /\ [][ExtractorNext]_vars

\* ------------------------------------------------------- the dashboard (App)

\* The lists /api/pump answers with.
CoinLists == SeqsUpTo(Tokens, MaxTokens)
Data(list) == [undefined |-> FALSE, list |-> list]

\* data && data.length > 0
isGood(data) == ~data.undefined /\ Len(data.list) > 0

\* The useMemo of displayData never consults lastGoodDataRef.
displayDataWithoutRef(data, ref) ==
  IF isGood(data) THEN data.list ELSE getFallbackData

\* The useMemo callback of displayData, given data and lastGoodDataRef.current.
displayData(data, ref) ==
  IF isGood(data) THEN data.list
  ELSE IF Len(ref) > 0 THEN ref
  ELSE getFallbackData

\* The useEffect callback: what lastGoodDataRef.current is after it ran.
lastGoodData(data, ref) == IF isGood(data) THEN data.list ELSE ref

\* App after useSWR delivered data and error: the render recomputes the memo
\* when data changed (it reads the ref as the previous effect left it), then
\* the effect updates the ref.
render(data, error) ==
  [app EXCEPT !.data = data, !.error = error, !.isValidating = FALSE,
              !.displayData = IF data # app.data
                                THEN displayData(data, app.lastGoodDataRef)
                                ELSE app.displayData,
              !.lastGoodDataRef = IF data # app.data
                                    THEN lastGoodData(data, app.lastGoodDataRef)
                                    ELSE app.lastGoodDataRef]

\* useSWR starts a request: on mount, every refreshInterval, on focus, on
\* reconnect.
Revalidate ==
  /\ ~app.isValidating
  /\ app' = [app EXCEPT !.isValidating = TRUE]
  /\ UNCHANGED nonAppVars

\* The fetcher resolves: /api/pump answered 200 with a list.
FetcherResolves(list) ==
  /\ app.isValidating
  /\ app' = [render(Data(list), UNDEFINED)
               EXCEPT !.recent = IF Len(list) > 0 THEN list ELSE app.recent]
  /\ UNCHANGED nonAppVars

\* The fetcher throws: fetch rejected, or /api/pump answered with res.ok
\* false. useSWR reports the error and keeps the data it has; the model also
\* lets it drop the data.
FetcherThrows ==
  /\ app.isValidating
  /\ \E data \in {app.data, NoData} : app' = render(data, "error")
  /\ UNCHANGED nonAppVars

DashboardNext ==
  \/ Revalidate
  \/ \E list \in CoinLists : FetcherResolves(list)
  \/ FetcherThrows

DashboardSpec == Init /\ [][DashboardNext]_vars

\* ------------------------------------------- executeTransaction (transactions.ts)

\* What a transactionFn call can come to: a signature, null, the empty string,
\* an Error thrown, something else thrown.
TransactionFnOutcomes ==
  {[kind |-> "signature", value |-> "sig"], [kind |-> "signature", value |-> NULL],
   [kind |-> "signature", value |-> ""],
   [kind |-> "throws", value |-> "Error: rejected"], [kind |-> "throws", value |-> "not an Error"]}

\* pendingTransactions.set(id, { pending: true, confirmed: false, failed: false, signature })
addPendingTransaction(id, signature) ==
  [pendingTransactions EXCEPT ![id] =
     [has |-> TRUE, pending |-> TRUE, confirmed |-> FALSE, failed |-> FALSE,
      signature |-> signature, error |-> UNDEFINED]]

\* { ...existing, ...status }: the fields of status replace those of existing.
spread(existing, status) ==
  [f \in DOMAIN existing |-> IF f \in DOMAIN status THEN status[f] ELSE existing[f]]

\* updateTransactionStatus(id, status) on the map as it is now.
updateTransactionStatus(id, status) ==
  IF pendingTransactions[id].has
  THEN [pendingTransactions EXCEPT ![id] = spread(@, status)]
  ELSE pendingTransactions

\* error instanceof Error ? error.message : 'Unknown error'
errorMessage(outcome) ==
  IF outcome.value = "Error: rejected" THEN "rejected" ELSE "Unknown error"

\* The status update executeTransaction makes once transactionFn has settled.
statusUpdate(outcome) ==
  IF outcome.kind = "signature" /\ Truthy(outcome.value)
  THEN [pending |-> FALSE, confirmed |-> TRUE, signature |-> outcome.value]
  ELSE IF outcome.kind = "signature"
  THEN [pending |-> FALSE, failed |-> TRUE, error |-> "Transaction failed"]
  ELSE [pending |-> FALSE, failed |-> TRUE, error |-> errorMessage(outcome)]

\* The TransactionResult executeTransaction returns.
transactionResult(outcome) ==
  IF outcome.kind = "signature" /\ Truthy(outcome.value)
  THEN [success |-> TRUE, signature |-> outcome.value, error |-> UNDEFINED]
  ELSE IF outcome.kind = "signature"
  THEN [success |-> FALSE, signature |-> UNDEFINED, error |-> "Transaction failed"]
  ELSE [success |-> FALSE, signature |-> UNDEFINED, error |-> errorMessage(outcome)]

\* executeTransaction(transactionFn, id) is called: the status is stored as
\* pending and transactionFn is called and awaited.
ExecuteTransaction(e, id) ==
  /\ execs[e].pc \in {"idle", "returned"}
  /\ pendingTransactions' = addPendingTransaction(id, UNDEFINED)
  /\ execs' = [execs EXCEPT ![e] = [NoExec EXCEPT !.pc = "awaiting", !.id = id]]
  /\ UNCHANGED nonTxVars

\* transactionFn settles: the call updates the status and returns.
TransactionFnSettles(e, outcome) ==
  /\ execs[e].pc = "awaiting"
  /\ pendingTransactions' = updateTransactionStatus(execs[e].id, statusUpdate(outcome))
  /\ execs' = [execs EXCEPT ![e] = [@ EXCEPT !.pc = "returned",
                                               !.result = transactionResult(outcome)]]
  /\ UNCHANGED nonTxVars

TransactionNext ==
  \/ \E e \in Execs, id \in TxIds : ExecuteTransaction(e, id)
  \/ \E e \in Execs, outcome \in TransactionFnOutcomes : TransactionFnSettles(e, outcome)

TransactionSpec == Init /\ [][TransactionNext]_vars

\* ---------------------------------------------- retryTransaction (transactions.ts)
\* Bound: the values of the parameter maxRetries (3 is its default).
MaxRetries == 3

\* The for statement gives up one attempt early.
loopContinuesOneShort(attempt, maxRetries) == attempt < maxRetries

\* attempt <= maxRetries
loopContinues(attempt, maxRetries) == attempt <= maxRetries

\* throw lastError || new Error('Transaction failed after all retries')
thrown(lastError) == OrElse(lastError, "Transaction failed after all retries")

\* The loop test for the given attempt: the next transactionFn call, or the
\* throw after the loop.
attemptOrThrow(call, attempt) ==
  IF loopContinues(attempt, call.maxRetries)
  THEN [call EXCEPT !.pc = "calling", !.attempt = attempt, !.calls = @ + 1]
  ELSE [call EXCEPT !.pc = "rejected", !.attempt = attempt, !.result = thrown(call.lastError)]

\* error instanceof Error ? error : new Error('Unknown error')
asError(value) == IF value = "not an Error" THEN "Unknown error" ELSE value

\* retryTransaction(transactionFn, maxRetries) is called: the loop starts.
RetryTransaction ==
  /\ retry.pc = "idle"
  /\ retry' = attemptOrThrow(retry, 1)
  /\ UNCHANGED nonRetryVars

\* transactionFn resolves: a truthy result is returned, any other result
\* leads to the next attempt at once.
TransactionFnResolves(value) ==
  /\ retry.pc = "calling"
  /\ retry' = [(IF Truthy(value)
                THEN [retry EXCEPT !.pc = "returned", !.result = value]
                ELSE attemptOrThrow(retry, retry.attempt + 1))
               EXCEPT !.outcomes = Append(retry.outcomes, [kind |-> "signature", value |-> value])]
  /\ UNCHANGED nonRetryVars

\* transactionFn throws: the error is kept, and the delay is awaited unless
\* this was the last attempt.
TransactionFnThrows(value) ==
  /\ retry.pc = "calling"
  /\ LET caught == [retry EXCEPT !.lastError = asError(value)]
     IN retry' = [(IF retry.attempt < retry.maxRetries
                   THEN [caught EXCEPT !.pc = "waiting"]
                   ELSE attemptOrThrow(caught, retry.attempt + 1))
                  EXCEPT !.outcomes = Append(retry.outcomes, [kind |-> "throws", value |-> value])]
  /\ UNCHANGED nonRetryVars

\* The delay after a failed attempt elapses: the next attempt.
RetryDelayElapsed ==
  /\ retry.pc = "waiting"
  /\ retry' = attemptOrThrow(retry, retry.attempt + 1)
  /\ UNCHANGED nonRetryVars

\* retryTransaction for any maxRetries up to MaxRetries.
RetryInit ==
  /\ cache = [a \in Addr |-> NoEntry]
  /\ calls = [c \in CallIds |-> NoCall]
  /\ runs = [r \in Reqs |-> NoRun]
  /\ reqs = [r \in Reqs |-> IdleReq]
  /\ hist = [a \in Addr |-> "none"]
  /\ text = <<>>
  /\ verdict = NoVerdict
  /\ markup = NoMarkup
  /\ extracted = <<>>
  /\ app = NoApp
  /\ abandoned = {}
  /\ pendingTransactions = [id \in TxIds |-> NoStatus]
  /\ execs = [e \in Execs |-> NoExec]
  /\ retry \in {[NoRetry EXCEPT !.maxRetries = n] : n \in 0 .. MaxRetries}
  /\ hook = NoHook
  /\ store = InitialState

RetryNext ==
  \/ RetryTransaction
  \/ \E value \in {"sig", NULL, ""} : TransactionFnResolves(value)
  \/ \E value \in {"Error: rejected", "not an Error"} : TransactionFnThrows(value)
  \/ RetryDelayElapsed

\* Every transactionFn call settles, and a timer that was set fires.
RetrySpec ==
  /\ RetryInit /\ [][RetryNext]_vars
  /\ WF_vars(RetryTransaction)
  /\ WF_vars(\E value \in {"sig", NULL, ""} : TransactionFnResolves(value))
  /\ WF_vars(\E value \in {"Error: rejected", "not an Error"} : TransactionFnThrows(value))
  /\ WF_vars(RetryDelayElapsed)

\* ------------------------------------------------- usePumpData (fetchPumpData)

\* What the GET handler of /api/pump answers: Response.json(data) with the
\* list, or the error object with status 500.
ApiAnswers ==
  {[status |-> 200, body |-> [kind |-> "array", list |-> l, error |-> UNDEFINED]] :
     l \in CoinLists}
    \cup {[status |-> 500,
           body |-> [kind |-> "object", list |-> <<>>, error |-> "Failed to fetch pump data"]]}

\* result.success, result.data, result.error of a parsed body: an array has
\* none of them, the error object has error only.
property(result, name) ==
  IF result.kind = "object" /\ name = "error" THEN result.error ELSE UNDEFINED

\* The catch and finally blocks: both error fields are set, both loading
\* flags are cleared.
catchFinally(message) ==
  /\ hook' = [hook EXCEPT !.pc = "done", !.error = message, !.loading = FALSE]
  /\ store' = [store EXCEPT !.ui = [loading |-> FALSE, error |-> message]]

\* fetchPumpData is called (on mount, every 7000 ms, by refetch).
FetchPumpData ==
  /\ hook.pc \in {"idle", "done"}
  /\ hook' = [hook EXCEPT !.pc = "fetching", !.loading = TRUE, !.error = NULL,
                           !.answer = NoAnswer]
  /\ store' = [store EXCEPT !.ui.loading = TRUE]
  /\ UNCHANGED nonHookVars

\* fetch rejects (network error).
PumpFetchRejects ==
  /\ hook.pc = "fetching"
  /\ catchFinally("Failed to fetch")
  /\ UNCHANGED nonHookVars

\* fetch resolves: a response that is not ok throws, any other is parsed.
PumpFetchResolves(answer) ==
  /\ hook.pc = "fetching"
  /\ IF answer.status # 200
     THEN /\ hook' = [hook EXCEPT !.pc = "done", !.error = "HTTP error! status: 500",
                                   !.loading = FALSE, !.answer = answer]
          /\ store' = [store EXCEPT !.ui = [loading |-> FALSE,
                                             error |-> "HTTP error! status: 500"]]
     ELSE /\ hook' = [hook EXCEPT !.pc = "parsing", !.answer = answer]
          /\ UNCHANGED store
  /\ UNCHANGED nonHookVars

\* response.json() resolves with the body.
PumpJsonParsed ==
  /\ hook.pc = "parsing"
  /\ LET result == hook.answer.body
     IN IF Truthy(property(result, "success")) /\ Truthy(property(result, "data"))
        THEN /\ hook' = [hook EXCEPT !.pc = "done", !.data = result.list, !.loading = FALSE]
             /\ store' = [store EXCEPT !.tokens = [pumpTokens |-> result.list, loading |-> FALSE],
                                        !.ui = [loading |-> FALSE, error |-> NULL]]
        ELSE catchFinally(OrElse(property(result, "error"), "Failed to fetch pump data"))
  /\ UNCHANGED nonHookVars

HookNext ==
  \/ FetchPumpData
  \/ PumpFetchRejects
  \/ \E answer \in ApiAnswers : PumpFetchResolves(answer)
  \/ PumpJsonParsed

HookSpec == Init /\ [][HookNext]_vars

\* ------------------------------------------------------------ properties

CallsOf(r) == {c \in CallIds : c[1] = r}

\* C1: getPumpList never rejects: whatever the upstream list request and the
\* scrapes come to, a call that has returned has resolved to a list.
C1_NeverRejects ==
  \A r \in Reqs :
    /\ reqs[r].settled # "rejected"
    /\ reqs[r].pc = "Returned" =>
         /\ reqs[r].settled = "resolved"
         /\ reqs[r].list \in Seq([address : Addr, description : STRING])

C1_Witness ==
  \E r \in Reqs :
    /\ reqs[r].pc = "Returned"
    /\ reqs[r].via = "merged"
    /\ \E c \in CallsOf(r) : calls[c].outcome \in {"error", "timeout"}

\* C2: when the upstream list fetch rejects, answers non-2xx or sends a body
\* that does not parse, getPumpList returns the empty list and no scrape starts.
C2_UpstreamFailureGivesEmptyList ==
  \A r \in Reqs :
    (reqs[r].pc = "Returned" /\ reqs[r].resp.kind \in {"reject", "status", "garbage"})
      => /\ reqs[r].settled = "resolved"
         /\ reqs[r].list = <<>>
         /\ runs[r].pc = "none"
         /\ \A c \in CallsOf(r) : calls[c].pc = "none"

C2_Witness ==
  \E r \in Reqs :
    /\ reqs[r].pc = "Returned"
    /\ reqs[r].resp.kind = "status"
    /\ \E i \in DOMAIN reqs[r].resp.rank : needsScraping(reqs[r].resp.rank[i])

\* C3: when the 15000 ms timer fires before scrapeMultipleTokens has resolved,
\* getPumpList returns the upstream list with every description as delivered.
C3_TimeoutReturnsUpstreamList ==
  \A r \in Reqs :
    (reqs[r].pc = "Returned" /\ reqs[r].via = "timeout")
      => /\ reqs[r].settled = "resolved"
         /\ reqs[r].list = reqs[r].resp.rank

C3_Witness ==
  \E r \in Reqs :
    /\ reqs[r].pc = "Returned"
    /\ reqs[r].via = "timeout"
    /\ \E c \in CallsOf(r) : calls[c].pc = "body"
    /\ \E c \in CallsOf(r) : calls[c].outcome = "ok" /\ calls[c].result # NoDescription

\* C4: every token delivered with a description (not empty, not blank) has
\* that description in the returned list.
C4_DeliveredDescriptionsKept ==
  \A r \in Reqs :
    (reqs[r].pc = "Returned" /\ reqs[r].resp.kind = "rank")
      => /\ Len(reqs[r].list) = Len(reqs[r].resp.rank)
         /\ \A i \in DOMAIN reqs[r].resp.rank :
              ~needsScraping(reqs[r].resp.rank[i])
                => reqs[r].list[i].description = reqs[r].resp.rank[i].description

\* C5: when enrichment completes in time, a token delivered without a
\* description gets the scraped description of its address unless that is the
\* placeholder or missing, in which case it keeps what was delivered; the
\* placeholder is never written into a token.
C5_MergeSkipsPlaceholder ==
  \A r \in Reqs :
    (reqs[r].pc = "Returned" /\ reqs[r].via = "merged")
      => /\ Len(reqs[r].list) = Len(reqs[r].resp.rank)
         /\ \A i \in DOMAIN reqs[r].resp.rank :
              LET up == reqs[r].resp.rank[i]
                  scraped == runs[r].results[up.address]
              IN needsScraping(up) =>
                   /\ reqs[r].list[i].description # NoDescription
                   /\ reqs[r].list[i].description =
                        IF scraped \in {UNDEFINED, NoDescription}
                        THEN up.description
                        ELSE scraped

C5_Witness ==
  \E r \in Reqs :
    /\ reqs[r].pc = "Returned"
    /\ reqs[r].via = "merged"
    /\ \E i, j \in DOMAIN reqs[r].resp.rank :
         /\ needsScraping(reqs[r].resp.rank[i])
         /\ needsScraping(reqs[r].resp.rank[j])
         /\ runs[r].results[reqs[r].resp.rank[i].address] = NoDescription
         /\ reqs[r].list[i].description = reqs[r].resp.rank[i].description
         /\ reqs[r].list[j].description = DescOf(reqs[r].resp.rank[j].address)

\* A scrapeTokenDescription call is made in this step on slot c.
Started(c) ==
  /\ calls[c].pc \in {"none", "done"}
  /\ calls'[c].pc # "none"
  /\ calls'[c] # calls[c]

\* The call on slot c issues its page fetch in this step.
Issues(c) == calls[c].pc # "fetching" /\ calls'[c].pc = "fetching"

\* The scrape on slot c fails in this step.
Fails(c) ==
  /\ calls[c].pc \in {"fetching", "body"}
  /\ calls'[c].pc = "done"
  /\ calls'[c].outcome \in {"error", "timeout"}

\* C6 as stated: between two evictions of an address at most one page fetch
\* is issued for it, however its scrapes are timed.
C6_OneFetchPerAddress ==
  [][\A a \in Addr :
       newFetches(calls', a) # {}
         => hist[a] = "none" /\ Cardinality(newFetches(calls', a)) = 1]_vars

\* C6: a scrape of an address that starts after an earlier scrape of it has
\* settled, with no eviction in between, issues no fetch and returns what the
\* cache holds.
C6_SecondScrapeServedFromCache ==
  [][\A c \in CallIds :
       (Started(c) /\ hist[calls'[c].addr] \in {"settled", "failed"})
         => /\ cache[calls'[c].addr].has
            /\ calls'[c].pc = "done"
            /\ calls'[c].outcome = "cached"
            /\ ~calls'[c].rejected
            /\ calls'[c].result = OrElse(cache[calls'[c].addr].description, NoDescription)
            /\ newFetches(calls', calls'[c].addr) = {}]_vars

C6_Witness ==
  \E c1, c2 \in CallIds :
    /\ c1 # c2
    /\ calls[c1].pc = "done" /\ calls[c1].outcome = "ok"
    /\ calls[c2].pc = "done" /\ calls[c2].outcome = "cached"
    /\ calls[c1].addr = calls[c2].addr
    /\ calls[c2].result = DescOf(calls[c2].addr)

\* C7: no page fetch for an address is issued while the cache holds an entry
\* for it.
C7_NoFetchWhileCached ==
  [][\A c \in CallIds : Issues(c) => ~cache[calls'[c].addr].has]_vars

\* C8 as stated: once a scrape of an address has failed, with no eviction
\* since, every scrape of it that starts later returns the placeholder and
\* issues no fetch.
C8_FailureSticks ==
  [][\A c \in CallIds :
       (Started(c) /\ hist[calls'[c].addr] = "failed")
         => /\ calls'[c].pc = "done"
            /\ calls'[c].result = NoDescription]_vars

\* C8: a failing scrape resolves to the placeholder without rejecting and
\* leaves an error entry in the cache; a scrape that starts while the cache
\* holds an error entry returns the placeholder and issues no fetch.
C8_FailureCachedAsError ==
  [][\A c \in CallIds :
       /\ Fails(c) =>
            /\ calls'[c].result = NoDescription
            /\ ~calls'[c].rejected
            /\ cache'[calls[c].addr] = ErrorEntry
       /\ (Started(c) /\ cache[calls'[c].addr] = ErrorEntry) =>
            /\ calls'[c].pc = "done"
            /\ ~calls'[c].rejected
            /\ calls'[c].result = NoDescription
            /\ newFetches(calls', calls'[c].addr) = {}]_vars

C8_Witness ==
  \E c1, c2 \in CallIds :
    /\ c1 # c2
    /\ calls[c1].pc = "done" /\ calls[c1].outcome \in {"error", "timeout"}
    /\ calls[c2].pc = "done" /\ calls[c2].outcome = "cached"
    /\ calls[c1].addr = calls[c2].addr
    /\ calls[c2].result = NoDescription
    /\ cache[calls[c2].addr] = ErrorEntry

\* The last scrape of address b in the batch the run is at.
LastCallFor(r, b) ==
  <<r, CHOOSE k \in BatchIdx(runs[r]) :
         /\ runs[r].addrs[k] = b
         /\ \A k2 \in BatchIdx(runs[r]) : runs[r].addrs[k2] = b => k2 <= k>>

\* C9: when the scrape of one address of a batch fails, the cache entry and
\* the scrape of every other address are left as they are, and a batch that
\* settles with it maps every other address to the result of its own scrape.
C9_FailureLeavesSiblings ==
  [][\A c \in BatchCallIds :
       Fails(c) =>
         /\ \A b \in Addr \ {calls[c].addr} : cache'[b] = cache[b]
         /\ \A c2 \in CallIds \ {c} : calls'[c2] = calls[c2]
         /\ runs'[c[1]].pc # "batch" =>
              \A k \in BatchIdx(runs[c[1]]) :
                LET b == runs[c[1]].addrs[k]
                IN b # calls[c].addr =>
                     runs'[c[1]].results[b] = calls[LastCallFor(c[1], b)].result]_vars

C9_Witness ==
  \E r \in Reqs :
    /\ runs[r].pc = "done"
    /\ \E c1, c2 \in CallsOf(r) :
         /\ calls[c1].outcome \in {"error", "timeout"}
         /\ calls[c2].outcome = "ok"
         /\ calls[c1].addr # calls[c2].addr
         /\ runs[r].results[calls[c1].addr] = NoDescription
         /\ runs[r].results[calls[c2].addr] = DescOf(calls[c2].addr)

\* C10: two addresses in one batch, the fetch of the first running into the
\* request timeout and the second returning its description: the map has the
\* placeholder for the first and the description for the second.
C10_TimeoutBesideSuccess ==
  \A r \in Reqs :
    (/\ runs[r].pc = "done"
     /\ Len(runs[r].addrs) = 2
     /\ runs[r].addrs[1] # runs[r].addrs[2]
     /\ calls[<<r, 1>>].outcome = "timeout"
     /\ calls[<<r, 2>>].outcome = "ok"
     /\ calls[<<r, 2>>].result # NoDescription)
      => /\ runs[r].results[runs[r].addrs[1]] = NoDescription
         /\ runs[r].results[runs[r].addrs[2]] = DescOf(runs[r].addrs[2])

C10_Witness ==
  \E r \in Reqs :
    /\ runs[r].pc = "done"
    /\ runs[r].addrs = <<"X", "Y">>
    /\ calls[<<r, 1>>].outcome = "timeout"
    /\ calls[<<r, 2>>].outcome = "ok"
    /\ runs[r].results = [a \in Addr |-> IF a = "X" THEN NoDescription ELSE DescOf("Y")]

\* C11: scrapeMultipleTokens resolves as soon as the scrapes of its last batch
\* have settled, none of which rejects, and the map it resolves to has for
\* every address of its input the description scraped for it or the
\* placeholder, and nothing for any other address.
C11_MapCoversInput ==
  \A r \in Reqs :
    /\ \A c \in CallsOf(r) : ~calls[c].rejected
    /\ runs[r].pc = "batch" => \E k \in BatchIdx(runs[r]) : calls[<<r, k>>].pc # "done"
    /\ runs[r].pc = "done" =>
         \A a \in Addr :
           IF \E k \in DOMAIN runs[r].addrs : runs[r].addrs[k] = a
           THEN runs[r].results[a] \in {DescOf(a), NoDescription}
           ELSE runs[r].results[a] = UNDEFINED

C11_Witness ==
  \E r \in Reqs :
    /\ runs[r].pc = "done"
    /\ Len(runs[r].addrs) > batchSize
    /\ \E c \in CallsOf(r) : calls[c].outcome = "timeout"
    /\ \E c \in CallsOf(r) : calls[c].outcome = "error"
    /\ runs[r].results["X"] = NoDescription
    /\ runs[r].results["Y"] = DescOf("Y")

\* C12: every fetchTokenPage call that was started settles (its scrape
\* completes), whatever the server does.
C12_EveryFetchSettles ==
  \A c \in CallIds : (calls[c].pc \in {"fetching", "body"}) ~> (calls[c].pc = "done")

\* C13: the scrapes of one batch start in one step, and a scrape of a later
\* batch starts only in the step in which the batch delay elapses, every
\* scrape of the batches before it having settled.
C13_BatchesRunInSequence ==
  [][\A r \in Reqs, k \in 1 .. MaxTokens + 1 :
       Started(<<r, k>>) =>
         LET first == ((k - 1) \div batchSize) * batchSize + 1
             last == Min(first + batchSize - 1, Len(runs'[r].addrs))
         IN /\ \A j \in first .. last : Started(<<r, j>>)
            /\ first > 1 =>
                 /\ runs[r].pc = "delay"
                 /\ runs'[r].pc # "delay"
                 /\ \A j \in 1 .. first - 1 : calls[<<r, j>>].pc = "done"]_vars

C13_Witness ==
  \E r \in Reqs :
    /\ runs[r].pc = "batch"
    /\ runs[r].i = batchSize
    /\ calls[<<r, 1>>].outcome = "ok"
    /\ calls[<<r, 2>>].outcome = "timeout"
    /\ calls[<<r, batchSize + 1>>].pc = "fetching"

\* C14: a request timer that fires settles its own call as timed out and
\* changes no other call; a call waiting for its body has its timer cleared,
\* and a call that has settled after a fetch holds no armed timer.
C14_TimerReleased ==
  [][\A c \in CallIds :
       /\ (calls[c].timer = "armed" /\ calls'[c].timer = "fired") =>
            /\ calls[c].pc = "fetching"
            /\ calls'[c].outcome = "timeout"
            /\ \A c2 \in CallIds \ {c} : calls'[c2] = calls[c2]
       /\ calls'[c].pc = "body" => calls'[c].timer = "cleared"
       /\ (calls'[c].pc = "done" /\ calls'[c].outcome # "cached") =>
            calls'[c].timer \in {"cleared", "fired"}]_vars

C14_Witness ==
  \E c1, c2, c3 \in CallIds :
    /\ calls[c1].pc = "done" /\ calls[c1].outcome = "timeout" /\ calls[c1].timer = "fired"
    /\ calls[c2].pc = "done" /\ calls[c2].outcome = "error" /\ calls[c2].timer = "cleared"
    /\ calls[c3].pc = "fetching" /\ calls[c3].timer = "armed"

\* The scrape on slot c settles in this step after a fetch.
Settles(c) == calls[c].pc \in {"fetching", "body"} /\ calls'[c].pc = "done"

\* C15: every scrape that settles after a fetch replaces the cache entry of
\* its address by one well-formed entry that holds its own result (an error
\* entry exactly when it failed), whatever entry an overlapping scrape of the
\* address wrote before; an entry changes in no other way than by such a
\* write or by eviction.
C15_LastWriteWins ==
  [][\A a \in Addr :
       /\ \A c \in CallIds :
            (Settles(c) /\ calls[c].addr = a) =>
              /\ cache'[a].has
              /\ cachedResult(cache'[a]) = calls'[c].result
              /\ cache'[a].error # UNDEFINED <=> calls'[c].outcome \in {"error", "timeout"}
              /\ cache'[a].error # UNDEFINED => cache'[a].description = UNDEFINED
       /\ cache'[a] # cache[a] =>
            \/ \E c \in CallIds : Settles(c) /\ calls[c].addr = a
            \/ cache'[a] = NoEntry]_vars

C15_Witness ==
  \E r \in Reqs :
    /\ Len(runs[r].addrs) = 2
    /\ runs[r].addrs[1] = runs[r].addrs[2]
    /\ calls[<<r, 1>>].pc = "done" /\ calls[<<r, 1>>].outcome = "ok"
    /\ calls[<<r, 1>>].result = DescOf(runs[r].addrs[1])
    /\ calls[<<r, 2>>].pc = "done" /\ calls[<<r, 2>>].outcome \in {"error", "timeout"}
    /\ cache[runs[r].addrs[1]] = DescEntry(DescOf(runs[r].addrs[1]))

\* The steps of one getPumpList call, `lacking` being the description values
\* that count as lacking a description: the call goes idle/Returned ->
\* Fetching -> (Enriching ->) Returned, a new call starts with nothing of the
\* call before it, and when the upstream fetch has settled the scraper is
\* called exactly when the list was delivered and has a token lacking a
\* description; without a scraper call the request returns in that step and
\* no scrape exists.
RequestSteps(lacking) ==
  \A r \in Reqs :
    LET pc == reqs[r].pc
        pc2 == reqs'[r].pc
        resp == reqs'[r].resp
        lacks == /\ resp.kind = "rank"
                 /\ \E i \in DOMAIN resp.rank : resp.rank[i].description \in lacking
    IN /\ pc # pc2 =>
            <<pc, pc2>> \in {<<"idle", "Fetching">>, <<"Returned", "Fetching">>,
                             <<"Fetching", "Enriching">>, <<"Fetching", "Returned">>,
                             <<"Enriching", "Returned">>}
       /\ (pc # "Fetching" /\ pc2 = "Fetching") =>
            /\ reqs'[r] = [IdleReq EXCEPT !.pc = "Fetching"]
            /\ runs'[r] = NoRun
       /\ (pc = "Fetching" /\ pc2 # "Fetching") =>
            /\ runs'[r].pc # "none" <=> lacks
            /\ runs'[r].pc = "none" =>
                 /\ pc2 = "Returned"
                 /\ \A c \in CallsOf(r) : calls'[c].pc = "none"

\* C16 as stated: enrichment runs exactly when a token's description is
\* absent or empty.
C16_EnrichExactlyWhenEmpty == [][RequestSteps({UNDEFINED, ""})]_vars

\* C16: every getPumpList call starts from one fresh upstream fetch, runs
\* enrichment exactly when a delivered token's description is absent, empty
\* or all whitespace, skips it otherwise with no scraper call and no page
\* fetch, and then returns.
C16_EnrichExactlyWhenBlank == [][RequestSteps({UNDEFINED, "", "  "})]_vars

C16_Witness ==
  \E r \in Reqs :
    /\ reqs[r].pc = "Returned"
    /\ reqs[r].via = "merged"
    /\ Len(reqs[r].resp.rank) = 2
    /\ reqs[r].resp.rank[1].description = "  "
    /\ reqs[r].resp.rank[2].description = "Existing"
    /\ reqs[r].resp.rank[1].address # reqs[r].resp.rank[2].address
    /\ calls[<<r, 1>>].outcome = "ok"
    /\ calls[<<r, 2>>].pc = "none"

\* C17: the GET handler never answers with the status-500 error object: every
\* request that has returned was answered with status 200 and the list
\* getPumpList resolved to, whatever failed on the way.
C17_HandlerAnswersWithList ==
  \A r \in Reqs :
    /\ reqs[r].response.status # 500
    /\ reqs[r].response.error = UNDEFINED
    /\ reqs[r].pc = "Returned" =>
         /\ reqs[r].response.status = 200
         /\ reqs[r].response.list = reqs[r].list

C17_Witness ==
  \E r \in Reqs :
    /\ reqs[r].pc = "Returned"
    /\ reqs[r].via = "timeout"
    /\ \E c \in CallsOf(r) : calls[c].outcome \in {"error", "timeout"}
    /\ reqs[r].response.status = 200
    /\ Len(reqs[r].response.list) = 2

\* C18: when the upstream list was delivered, the returned list has as many
\* tokens as the rank array, and its i-th token is the i-th delivered token
\* but for its description.
C18_ListKeepsTokensAndOrder ==
  \A r \in Reqs :
    (reqs[r].pc = "Returned" /\ reqs[r].resp.kind = "rank")
      => /\ Len(reqs[r].list) = Len(reqs[r].resp.rank)
         /\ \A i \in DOMAIN reqs[r].resp.rank :
              [reqs[r].list[i] EXCEPT !.description = reqs[r].resp.rank[i].description]
                = reqs[r].resp.rank[i]

C18_Witness ==
  \E r \in Reqs :
    /\ reqs[r].pc = "Returned"
    /\ reqs[r].via = "merged"
    /\ reqs[r].resp.rank = <<[address |-> "Y", description |-> "Existing"],
                              [address |-> "X", description |-> UNDEFINED]>>
    /\ reqs[r].list = <<[address |-> "Y", description |-> "Existing"],
                         [address |-> "X", description |-> DescOf("X")]>>

\* The number of words of a text.
wordCount(t) == Cardinality({i \in DOMAIN t : t[i] # " "})

\* C19: isValidDescription returns false, with the meta-tag flag on and with
\* it off, for every text that matches one of the time patterns, among them
\* '5 minutes ago', 'about 5 minutes ago', '5m ago', 'just now' and 'yesterday'.
C19_RelativeTimeRejected ==
  (/\ verdict.fn = "isValidDescription"
   /\ \/ matchesTimePattern(text)
      \/ text \in {<<"5", " ", "minutes", " ", "ago">>,
                    <<"about", " ", "5", " ", "minutes", " ", "ago">>,
                    <<"5m", " ", "ago">>, <<"just", " ", "now">>,
                    <<"yesterday">>, <<"Yesterday">>,
                    <<"moon", " ", "5", " ", " ", "minutes", " ", " ", "ago">>})
    => verdict.value = FALSE

C19_Witness ==
  /\ text = <<"moon", " ", "5m", " ", "ago">>
  /\ verdict = [fn |-> "isValidDescription", isMetaTag |-> TRUE, value |-> FALSE]

\* C20: isValidTextBlock returns false for every text of fewer than 3 words.
C20_ShortTextRejected ==
  (verdict.fn = "isValidTextBlock" /\ wordCount(text) < 3) => verdict.value = FALSE

Evicted ==
  {a \in Addr : \/ hist[a] # "none" /\ hist'[a] = "none"
                \/ cache[a].has /\ ~cache'[a].has}

\* C22 as stated: an evicted address has no entry until a fetch for it is
\* issued after the eviction, so that the next scrape of it fetches.
C22_EvictedUntilRefetched ==
  [][\A a \in Addr : (hist[a] = "none" /\ hist'[a] # "fetching") => ~cache'[a].has]_vars

\* C22: an eviction removes the entries of the evicted addresses, leaves
\* every other entry and every call alone, and getCacheStats then reports the
\* remaining addresses and their number; a scrape that starts while its
\* address has no entry is not served from the cache: it starts its fetch,
\* or the rate-limit delay before it.
C22_EvictionRemovesEntry ==
  [][/\ Evicted # {} =>
          /\ \A a \in Evicted : cache'[a] = NoEntry
          /\ \A b \in Addr \ Evicted : cache'[b] = cache[b]
          /\ calls' = calls
          /\ getCacheStats'.tokens = getCacheStats.tokens \ Evicted
          /\ getCacheStats'.size = Cardinality(getCacheStats.tokens \ Evicted)
     /\ \A c \in CallIds :
          (Started(c) /\ ~cache[calls'[c].addr].has) =>
            /\ calls'[c].pc \in {"fetching", "delay"}
            /\ calls'[c].pc = "fetching" <=> c \in BatchCallIds
            /\ calls'[c].pc = "delay" <=> c \in DirectCallIds]_vars

C22_Witness ==
  \E c1 \in BatchCallIds, c2 \in DirectCallIds :
    /\ calls[c1].pc = "done" /\ calls[c1].outcome = "ok" /\ calls[c1].addr = "X"
    /\ calls[c2].pc = "fetching" /\ calls[c2].addr = "X"
    /\ ~cache["X"].has
    /\ cache["Y"].has
    /\ getCacheStats = [size |-> 1, tokens |-> {"Y"}]

\* C23: the result of extractDescription is the first accepted meta content;
\* without one, the first accepted structural text; without one, the first
\* accepted leaf text; and null exactly when no stage accepts a candidate.
C23_FirstAcceptedInStageOrder ==
  \A k \in DOMAIN extracted :
    LET metaOk == {i \in DOMAIN markup.meta : metaAccepted(markup.meta[i])}
        structuralOk ==
          {i \in DOMAIN markup.structural : structuralAccepted(markup.structural[i])}
        leafOk == {i \in DOMAIN markup.leaves : leafAccepted(markup.leaves[i])}
    IN /\ metaOk # {} =>
            extracted[k] = Description(normalize(markup.meta[First(metaOk)]))
       /\ (metaOk = {} /\ structuralOk # {}) =>
            extracted[k] =
              Description(normalize(trimText(markup.structural[First(structuralOk)])))
       /\ (metaOk = {} /\ structuralOk = {} /\ leafOk # {}) =>
            extracted[k] = Description(normalize(trimText(markup.leaves[First(leafOk)])))
       /\ extracted[k].null <=> (metaOk = {} /\ structuralOk = {} /\ leafOk = {})

C23_Witness ==
  /\ markup.meta = <<<<"moon", " ", "5", " ", "minutes", " ", "ago">>>>
  /\ markup.structural = <<<<"loading">>, <<"moon">>>>
  /\ markup.leaves = <<<<" ", "moon", " ", " ", "moon", " ", "now", " ">>>>
  /\ extracted = <<Description(<<"moon">>)>>

\* C24: a text isValidDescription accepts with the meta-tag flag off it also
\* accepts with the flag on, and a text it accepts with the flag on and
\* rejects with it off contains one of the UI phrases, case ignored.
C24_LeniencyOnlyForUiPhrases ==
  verdict.fn = "isValidDescription" =>
    /\ (~verdict.isMetaTag /\ verdict.value) => isValidDescription(text, TRUE)
    /\ (verdict.isMetaTag /\ verdict.value /\ ~isValidDescription(text, FALSE)) =>
         \E ex \in uiExclusions : includes(toLowerCase(text), ex)

C24_Witness ==
  /\ text = <<"moon", " ", " ", "loading", " ", " ", "now">>
  /\ verdict = [fn |-> "isValidDescription", isMetaTag |-> TRUE, value |-> TRUE]
  /\ ~isValidDescription(text, FALSE)

\* C25: every result of extractDescription is null or a non-empty text that
\* neither starts nor ends with whitespace and has no two whitespace
\* characters in a row.
C25_ResultIsNormalized ==
  \A k \in DOMAIN extracted :
    ~extracted[k].null =>
      LET t == extracted[k].text
      IN /\ Len(t) > 0
         /\ t[1] # " "
         /\ t[Len(t)] # " "
         /\ \A i \in 1 .. Len(t) - 1 : ~(t[i] = " " /\ t[i + 1] = " ")

C28_StatusMatchesResult ==
  /\ [](\A id \in TxIds : ~(pendingTransactions[id].confirmed /\ pendingTransactions[id].failed))
  /\ [][\A e \in Execs :
          (execs[e].pc = "awaiting" /\ execs'[e].pc = "returned") =>
             /\ ~pendingTransactions'[execs[e].id].pending
             /\ pendingTransactions'[execs[e].id].confirmed = execs'[e].result.success]_vars

\* The k-th transactionFn call returned a non-empty signature.
Signed(k) ==
  retry.outcomes[k].kind = "signature" /\ Truthy(retry.outcomes[k].value)

\* C29: retryTransaction calls transactionFn at most maxRetries times; a call
\* that returns a non-empty signature is the last one and its signature is
\* returned; after maxRetries calls that threw or returned nothing the call
\* has rejected, and it rejects in no other case; and the call returns or
\* rejects when every transactionFn call settles.
C29_RetryIsBounded ==
  /\ [](/\ retry.calls <= retry.maxRetries
        /\ Len(retry.outcomes) = IF retry.pc = "calling" THEN retry.calls - 1 ELSE retry.calls
        /\ \A k \in DOMAIN retry.outcomes : Signed(k) =>
              /\ k = retry.calls
              /\ retry.pc = "returned"
              /\ retry.result = retry.outcomes[k].value
        /\ (retry.pc = "rejected") <=>
              /\ retry.pc # "idle"
              /\ Len(retry.outcomes) = retry.maxRetries
              /\ \A k \in DOMAIN retry.outcomes : ~Signed(k))
  /\ <>(retry.pc \in {"returned", "rejected"})

\* Three attempts: one threw, one returned null, the third a signature.
C29_Witness ==
  /\ retry.maxRetries = 3
  /\ retry.pc = "returned"
  /\ retry.calls = 3
  /\ retry.result = "sig"
  /\ retry.outcomes[1].kind = "throws"
  /\ retry.outcomes[2] = [kind |-> "signature", value |-> NULL]

\* C30: a fetchPumpData call that /api/pump answered with status 200 and a
\* token list has ended with that list as data, no error and loading false,
\* in the hook and in the store.
C30_HookHoldsTheList ==
  (hook.pc = "done" /\ hook.answer.status = 200 /\ hook.answer.body.kind = "array") =>
     /\ hook.data = hook.answer.body.list
     /\ hook.error = NULL
     /\ ~hook.loading
     /\ store.tokens.pumpTokens = hook.answer.body.list
     /\ store.ui.error = NULL
     /\ ~store.ui.loading

====
